---- MODULE Spec2Model ----
(***************************************************************************)
(* Real-time coordination core of the OneDesk backend: the socket.io       *)
(* presence registry (src/socket/socketHandlers.js) and the WebRTC call    *)
(* index (src/socket/webrtcHandlers.js), wired as src/server.js wires them.*)
(*                                                                         *)
(* Node runs every listener to completion between awaits, so one action    *)
(* is either the dispatch of one client event to all of its listeners (up  *)
(* to each listener's first await) or the resumption of one suspended      *)
(* listener from the persistence lookup it awaits to its next await or end.*)
(***************************************************************************)
EXTENDS Integers, Sequences, FiniteSets, TLC

\* ---------------------------------------------------------------- bounds
MaxSockets == 2     \* connections ever accepted in one run
MaxRand == 2        \* distinct values of `${Date.now()}_${random}` in call ids
MaxStamp == 1       \* distinct values of Date.now() in group call ids
MaxInflight == 1    \* client events with suspended listeners at one time
MaxEvents == 3      \* client events after the connections in one run
MaxJoiners == 3
MaxSuspended == 2     \* chat, board and document listeners suspended at once
MaxCreatedAt == 2     \* values of the clock of the database
MaxYConns == 1        \* document connections
MaxUpdates == 11      \* update messages per document connection
MaxSaving == 2        \* snapshot saves under way at once
MaxMs == 2            \* single milliseconds the clock advances by
MaxIdle == 1          \* idle periods the clock advances by     \* connections accepted in a run of group call joins

\* ------------------------------------------- users, workspaces, inputs
UserOrder == <<"u1", "u2", "u3">>
Users == {"u1", "u2"}
\* the users of a run of group call joins
Joiners == {UserOrder[i] : i \in 1..Len(UserOrder)}
WorkspaceOrder == <<"w1", "w2">>
Workspaces == {WorkspaceOrder[i] : i \in 1..Len(WorkspaceOrder)}
CallTypes == {"1:1", "group"}
Statuses == {"online", "away", "offline"}

\* the workspaces call events name
CallWorkspaces == {"w1"}

\* The listeners of the call events are registered once per call of
\* setupWebRTCHandlers(io): by setupSocketHandlers and again by server.js.
Registrations == <<"socketHandlers.js:12", "server.js:102">>

\* the roles of a workspace member, the role of a row without one, and the
\* lookup that finds no row
Roles == {"member", "admin", "owner"}
NullRole == "NULL"
NoRow == "no row"
NoResponse == [status |-> "", workspaceRole |-> ""]

VARIABLES
  sockets,            \* socket id -> [userId, connected, rooms]
  activeConnections,  \* Map userId -> Set of socket ids
  workspaceRooms,     \* Map workspaceId -> Set of userIds
  userPresence,       \* Map userId -> [status, workspaceId]
  activeCalls,        \* Map callId -> call record, in insertion order
  userCalls,          \* Map userId -> Set of callIds
  pending,            \* listeners suspended on a persistence lookup
  out,                \* what the last step emitted, in order
  events,             \* client events handled so far
  messages,           \* the rows of the messages table, in insertion order
  newMessages,        \* the new_message events broadcast so far, in order
  presenceWrites,     \* the user_presence upserts that have not returned
  user_presence,      \* the status column of the user_presence table
  yconns,             \* the document connections of the Yjs server
  saves,              \* the saveDocumentSnapshot calls that have not returned
  now,                \* Date.now()
  received,           \* the updates received for the document so far
  documents,          \* the content column of the row of the document
  workspace_members,  \* the role column of the workspace_members table
  res                 \* what requireWorkspaceAccess answered last

\* the chat messages stored and broadcast
chat == <<messages, newMessages>>
\* what the listeners keep in the database
stores == <<chat, presenceWrites, user_presence>>
\* the state of yWebSocketServer.js
yjs == <<yconns, saves, now, received, documents>>
\* the membership table and the answer of the HTTP middleware
http == <<workspace_members, res>>

vars == <<sockets, activeConnections, workspaceRooms, userPresence,
          activeCalls, userCalls, pending, out, events, stores, yjs, http>>

\* ------------------------------------------------------------ identifiers
NoCall == <<"", "", 0>>
CallIdOf(n) == <<"call", "", n>>                 \* `call_${Date.now()}_${rand}`
GroupCallIdOf(w, t) == <<"group_call", w, t>>    \* `group_call_${w}_${Date.now()}`

\* channel keys (socket.io rooms) and the private channel of one socket
ToSocket(s) == [k |-> "socket", s |-> s, n |-> "", c |-> NoCall]
UserRoom(u) == [k |-> "user", s |-> 0, n |-> u, c |-> NoCall]
WorkspaceRoom(w) == [k |-> "workspace", s |-> 0, n |-> w, c |-> NoCall]
CallRoom(id) == [k |-> "call", s |-> 0, n |-> "", c |-> id]

\* one emitted event: socket.emit (to = ToSocket(s), except = 0),
\* socket.to(room).emit (except = s) or io.to(room).emit (except = 0)
Msg(ev, to, except, callId, user, ws) ==
  [ev |-> ev, to |-> to, except |-> except, callId |-> callId,
   user |-> user, ws |-> ws, participants |-> {}, message |-> ""]
\* a scoped error event: socket.emit(ev, { message })
ErrorMsg(ev, s, message) ==
  [Msg(ev, ToSocket(s), 0, NoCall, "", "") EXCEPT !.message = message]

\* the live sockets an emitted event is delivered to
Delivered(socks, m) ==
  IF m.to.k = "socket"
  THEN {s \in DOMAIN socks : s = m.to.s /\ socks[s].connected}
  ELSE {s \in DOMAIN socks :
          socks[s].connected /\ m.to \in socks[s].rooms /\ s # m.except}

\* ------------------------------------------------------------ Map helpers
MapRemove(m, k) == [x \in DOMAIN m \ {k} |-> m[x]]
MapPut(m, k, v) == [x \in DOMAIN m \cup {k} |-> IF x = k THEN v ELSE m[x]]
EmptyMap == [x \in {} |-> {}]

SeqOfUsers(S) == SelectSeq(UserOrder, LAMBDA u : u \in S)
SeqOfWorkspaces(S) == SelectSeq(WorkspaceOrder, LAMBDA w : w \in S)

CallIds(calls) == {calls[i].id : i \in 1..Len(calls)}
HasCall(calls, id) == id \in CallIds(calls)
CallIndex(calls, id) == CHOOSE i \in 1..Len(calls) : calls[i].id = id
GetCall(calls, id) == calls[CallIndex(calls, id)]
\* Map.set keeps the position of a key that exists and appends a new one
SetCall(calls, rec) ==
  IF HasCall(calls, rec.id)
  THEN [calls EXCEPT ![CallIndex(calls, rec.id)] = rec]
  ELSE Append(calls, rec)
DeleteCall(calls, id) == SelectSeq(calls, LAMBDA c : c.id # id)

\* userCalls.get(u).delete(id); if (size === 0) userCalls.delete(u)
DropUserCall(uc, u, id) ==
  IF u \notin DOMAIN uc THEN uc
  ELSE IF uc[u] \ {id} = {} THEN MapRemove(uc, u)
  ELSE [uc EXCEPT ![u] = @ \ {id}]

\* if (!userCalls.has(u)) userCalls.set(u, new Set()); userCalls.get(u).add(id)
AddUserCall(uc, u, id) ==
  IF u \in DOMAIN uc THEN [uc EXCEPT ![u] = @ \cup {id}] ELSE MapPut(uc, u, {id})

\* ---------------------------------------------------- persistence lookups
\* The workspace_members table belongs to the persistence service and is
\* written by the REST routes at any time.  What a membership lookup with
\* .single() returns is therefore an input of the step that receives it:
\* TRUE for the row, FALSE for no row or an error.
LookupResults == BOOLEAN

\* ------------------------------------------------------- call index state
\* The listeners of webrtcHandlers.js read and write activeCalls, userCalls
\* and the socket's rooms, and emit; St is that part of the state.
St(calls, uc, socks, o) == [calls |-> calls, ucalls |-> uc, socks |-> socks, out |-> o]
Emit(st, m) == [st EXCEPT !.out = Append(@, m)]

\* cleanupCall(callId)
cleanupCall(st, callId) ==
  IF ~HasCall(st.calls, callId) THEN st
  ELSE LET call == GetCall(st.calls, callId)
           ps == SeqOfUsers(call.participants)
           f[i \in 0..Len(ps)] ==
             IF i = 0 THEN st.ucalls ELSE DropUserCall(f[i - 1], ps[i], callId)
       IN [st EXCEPT !.ucalls = f[Len(ps)], !.calls = DeleteCall(@, callId)]

\* call.participants.forEach(p => io.to(`user:${p}`).emit(ev, {callId, ...}))
NotifyParticipants(st, ev, callId, userId) ==
  LET ps == SeqOfUsers(GetCall(st.calls, callId).participants)
      f[i \in 0..Len(ps)] ==
        IF i = 0 THEN st
        ELSE Emit(f[i - 1], Msg(ev, UserRoom(ps[i]), 0, callId, userId, ""))
  IN f[Len(ps)]

CallError(st, s, message) == Emit(st, ErrorMsg("call_error", s, message))

\* variant of the guard that forgets the participant check
CallAccessAnyUser(st, userId, callId) == HasCall(st.calls, callId)

\* the guard shared by accept_call, reject_call, end_call, leave_group_call
CallAccess(st, userId, callId) ==
  HasCall(st.calls, callId) /\ userId \in GetCall(st.calls, callId).participants

\* socket.on('accept_call')
AcceptCallHandler(st, s, callId) ==
  LET userId == st.socks[s].userId
  IN IF ~CallAccess(st, userId, callId)
     THEN CallError(st, s, "Call not found or access denied")
     ELSE NotifyParticipants(st, "call_accepted", callId, userId)

\* socket.on('reject_call')
RejectCallHandler(st, s, callId) ==
  LET userId == st.socks[s].userId
  IN IF ~CallAccess(st, userId, callId)
     THEN CallError(st, s, "Call not found or access denied")
     ELSE cleanupCall(NotifyParticipants(st, "call_rejected", callId, userId), callId)

\* socket.on('end_call')
EndCallHandler(st, s, callId) ==
  LET userId == st.socks[s].userId
  IN IF ~CallAccess(st, userId, callId)
     THEN CallError(st, s, "Call not found or access denied")
     ELSE cleanupCall(NotifyParticipants(st, "call_ended", callId, userId), callId)

\* socket.leave(room)
SocketLeave(socks, s, room) == [socks EXCEPT ![s].rooms = @ \ {room}]
\* socket.join(room): the adapter records the room for the socket id
SocketJoin(socks, s, room) == [socks EXCEPT ![s].rooms = @ \cup {room}]

\* variant of leave_group_call without the cleanup of an emptied call
\* (lines 278-280 left out)
LeaveGroupCallKeepsEmpty(st, s, callId) ==
  LET userId == st.socks[s].userId
  IN IF ~CallAccess(st, userId, callId)
     THEN CallError(st, s, "Call not found or not a participant")
     ELSE LET call == GetCall(st.calls, callId)
              left == [call EXCEPT !.participants = @ \ {userId}]
              st1 == [st EXCEPT !.calls = SetCall(@, left),
                                !.socks = SocketLeave(@, s, CallRoom(callId)),
                                !.ucalls = DropUserCall(@, userId, callId)]
              st2 == Emit(st1, Msg("user_left_call", CallRoom(callId), s, callId, userId, ""))
          IN Emit(st2, Msg("left_group_call", ToSocket(s), 0, callId, "", ""))

\* socket.on('leave_group_call')
LeaveGroupCallHandler(st, s, callId) ==
  LET userId == st.socks[s].userId
  IN IF ~CallAccess(st, userId, callId)
     THEN CallError(st, s, "Call not found or not a participant")
     ELSE LET call == GetCall(st.calls, callId)
              left == [call EXCEPT !.participants = @ \ {userId}]
              st1 == [st EXCEPT !.calls = SetCall(@, left),
                                !.socks = SocketLeave(@, s, CallRoom(callId)),
                                !.ucalls = DropUserCall(@, userId, callId)]
              st2 == Emit(st1, Msg("user_left_call", CallRoom(callId), s, callId, userId, ""))
              st3 == IF left.participants = {} THEN cleanupCall(st2, callId) ELSE st2
          IN Emit(st3, Msg("left_group_call", ToSocket(s), 0, callId, "", ""))

\* one call of the disconnecting user, inside userCallSet.forEach
DisconnectFromCall(st, userId, callId) ==
  IF ~HasCall(st.calls, callId) THEN st
  ELSE LET call == GetCall(st.calls, callId)
           ps == SeqOfUsers(call.participants \ {userId})
           f[i \in 0..Len(ps)] ==
             IF i = 0 THEN st
             ELSE Emit(f[i - 1], Msg("user_disconnected_from_call", UserRoom(ps[i]),
                                     0, callId, userId, ""))
           left == [call EXCEPT !.participants = @ \ {userId}]
           st1 == [f[Len(ps)] EXCEPT !.calls = SetCall(@, left)]
       IN IF left.participants = {} THEN cleanupCall(st1, callId) ELSE st1

\* variant of the listener that ends the first call of the user only
CallDisconnectFirstOnly(st, s) ==
  LET userId == st.socks[s].userId
  IN IF userId \notin DOMAIN st.ucalls THEN st
     ELSE LET mine == st.ucalls[userId]
              ids == [i \in 1..Len(st.calls) |-> st.calls[i].id]
              todo == SelectSeq(ids, LAMBDA id : id \in mine)
              st1 == IF todo = <<>> THEN st ELSE DisconnectFromCall(st, userId, todo[1])
          IN [st1 EXCEPT !.ucalls = MapRemove(@, userId)]

\* socket.on('disconnect') of webrtcHandlers.js.  The calls of the user are
\* visited in the order of activeCalls; the order changes no state.
CallDisconnectHandler(st, s) ==
  LET userId == st.socks[s].userId
  IN IF userId \notin DOMAIN st.ucalls THEN st
     ELSE LET mine == st.ucalls[userId]
              ids == [i \in 1..Len(st.calls) |-> st.calls[i].id]
              todo == SelectSeq(ids, LAMBDA id : id \in mine)
              f[i \in 0..Len(todo)] ==
                IF i = 0 THEN st ELSE DisconnectFromCall(f[i - 1], userId, todo[i])
          IN [f[Len(todo)] EXCEPT !.ucalls = MapRemove(@, userId)]

\* ------------------------------------------------------ suspended listeners
\* One listener of an async event, suspended on a persistence lookup.
\* start_video_call awaits two lookups in a row (lines 22-34) and neither
\* reads nor writes anything in between, so its listener is suspended from
\* the first await until the second lookup has returned.
\* made is history, not program state: how many calls the listeners of the
\* same client event have added to activeCalls so far.
Listener(evt, h, op, s, ws, target, ctype, wss, status) ==
  [evt |-> evt, h |-> h, op |-> op, sock |-> s, ws |-> ws, target |-> target,
   ctype |-> ctype, wss |-> wss, status |-> status, made |-> 0]

\* The listeners of one client event are the same closure over the same
\* arguments, so they are told apart by nothing but their number: the one
\* registered first stands for whichever resumes first.
NextToResume(p) == \A q \in pending : q.evt = p.evt => p.h <= q.h

\* the listeners still suspended once p has ended, told what p created
Siblings(p, n) ==
  {IF q.evt = p.evt THEN [q EXCEPT !.made = @ + n] ELSE q : q \in pending \ {p}}

Slots == 1..MaxInflight
BusySlots == {p.evt : p \in pending} \cap Slots
FreeSlot == CHOOSE e \in Slots : e \notin BusySlots
Live(s) == s \in DOMAIN sockets /\ sockets[s].connected

\* The call ids a client can name: those of the calls there are, and one id
\* of no call (every id that is not a key of activeCalls is handled alike).
UnknownCallId == CallIdOf(0)
NameableCallIds == CallIds(activeCalls) \cup {UnknownCallId}

\* the part of the state the call listeners own, before the step
CallSt == St(activeCalls, userCalls, sockets, <<>>)

\* ---------------------------------------------------- start_video_call
\* the synchronous tail of start_video_call, after both lookups (lines 36-76)
StartVideoCallTail(st, s, targetUserId, workspaceId, callType, ok, callId) ==
  LET callerId == st.socks[s].userId
  IN IF ~ok THEN CallError(st, s, "Both users must be in the same workspace")
     ELSE LET rec == [id |-> callId, participants |-> {callerId, targetUserId},
                      workspaceId |-> workspaceId, type |-> callType,
                      startedBy |-> callerId]
              st1 == [st EXCEPT
                        !.calls = SetCall(@, rec),
                        !.ucalls = AddUserCall(AddUserCall(@, callerId, callId),
                                               targetUserId, callId)]
              st2 == Emit(st1, Msg("incoming_call", UserRoom(targetUserId), s,
                                   callId, callerId, workspaceId))
          IN Emit(st2, Msg("call_started", ToSocket(s), 0, callId,
                           targetUserId, workspaceId))

\* variant of the check that looks at the caller's membership only
StartCheckCallerOnly(okCaller, okTarget) == okCaller

\* if (callerError || !callerMembership || targetError || !targetMembership)
StartCheck(okCaller, okTarget) == okCaller /\ okTarget

\* ------------------------------------------------------- join_group_call
\* variant of the search whose comparison never matches
FindGroupCallNever(calls, workspaceId) == NoCall

\* for (const [id, call] of activeCalls.entries()) if (...) { callId = id; break }
FindGroupCall(calls, workspaceId) ==
  LET hits == SelectSeq(calls, LAMBDA c : c.workspaceId = workspaceId /\ c.type = "group")
  IN IF hits = <<>> THEN NoCall ELSE hits[1].id

\* variant of the tail that reads the participants for the reply before
\* it adds the joiner
JoinGroupCallStaleReply(st, s, workspaceId, ok, newId) ==
  LET userId == st.socks[s].userId
      found == FindGroupCall(st.calls, workspaceId)
      callId == IF found = NoCall THEN newId ELSE found
  IN IF ~ok THEN CallError(st, s, "Not a workspace member")
     ELSE LET old == IF found = NoCall THEN {} ELSE GetCall(st.calls, callId).participants
              rec == IF found = NoCall
                     THEN [id |-> callId, participants |-> {userId},
                           workspaceId |-> workspaceId, type |-> "group",
                           startedBy |-> userId]
                     ELSE [GetCall(st.calls, callId) EXCEPT
                             !.participants = @ \cup {userId}]
              st1 == [st EXCEPT !.calls = SetCall(@, rec),
                                !.ucalls = AddUserCall(@, userId, callId),
                                !.socks = SocketJoin(@, s, CallRoom(callId))]
              st2 == Emit(st1, Msg("user_joined_call", CallRoom(callId), s,
                                   callId, userId, workspaceId))
          IN Emit(st2, [Msg("joined_group_call", ToSocket(s), 0, callId, "", workspaceId)
                          EXCEPT !.participants = old])

\* the synchronous tail of join_group_call, after the lookup (lines 191-245)
JoinGroupCallTail(st, s, workspaceId, ok, newId) ==
  LET userId == st.socks[s].userId
      found == FindGroupCall(st.calls, workspaceId)
      callId == IF found = NoCall THEN newId ELSE found
  IN IF ~ok THEN CallError(st, s, "Not a workspace member")
     ELSE LET rec == IF found = NoCall
                     THEN [id |-> callId, participants |-> {userId},
                           workspaceId |-> workspaceId, type |-> "group",
                           startedBy |-> userId]
                     ELSE [GetCall(st.calls, callId) EXCEPT
                             !.participants = @ \cup {userId}]
              st1 == [st EXCEPT !.calls = SetCall(@, rec),
                                !.ucalls = AddUserCall(@, userId, callId),
                                !.socks = SocketJoin(@, s, CallRoom(callId))]
              st2 == Emit(st1, Msg("user_joined_call", CallRoom(callId), s,
                                   callId, userId, workspaceId))
          IN Emit(st2, [Msg("joined_group_call", ToSocket(s), 0, callId, "", workspaceId)
                          EXCEPT !.participants = rec.participants])

\* -------------------------------------------------------------- presence
\* the row an upsert writes; equal upserts under way are told apart by nothing
Upsert(userId, workspaceId, status) ==
  [user_id |-> userId, workspace_id |-> workspaceId, status |-> status]

\* updateUserPresence up to its await (lines 567-582): userPresence.set(...)
\* and then the upsert, which no caller awaits
updateUserPresence(pr, userId, workspaceId, status) ==
  [pr EXCEPT
     !.up = MapPut(@, userId, [status |-> status, workspaceId |-> workspaceId]),
     !.writes = @ \cup {Upsert(userId, workspaceId, status)}]

\* getOnlineUsers(workspaceId)
getOnlineUsers(rooms, up, workspaceId) ==
  LET userIds == IF workspaceId \in DOMAIN rooms THEN rooms[workspaceId] ELSE {}
  IN {u \in userIds : u \in DOMAIN up /\ up[u].status = "online"}

\* workspaceRooms.get(w).add(u), creating the Set when the key is new
TrackWorkspaceUser(rooms, w, u) ==
  IF w \in DOMAIN rooms THEN [rooms EXCEPT ![w] = @ \cup {u}] ELSE MapPut(rooms, w, {u})

\* workspaceUsers.delete(u); if (workspaceUsers.size === 0) workspaceRooms.delete(w)
UntrackWorkspaceUser(rooms, w, u) ==
  IF w \notin DOMAIN rooms THEN rooms
  ELSE IF rooms[w] \ {u} = {} THEN MapRemove(rooms, w)
  ELSE [rooms EXCEPT ![w] = @ \ {u}]

\* the presence part of the state: Pr(activeConnections, workspaceRooms,
\* userPresence, sockets, out), and the upserts under way
Pr(conns, rooms, up, socks, o) ==
  [conns |-> conns, rooms |-> rooms, up |-> up, socks |-> socks, out |-> o,
   writes |-> presenceWrites]

\* the workspaces whose workspaceRooms entry holds the user (lines 536-538)
WorkspacesOf(rooms, userId) == {w \in DOMAIN rooms : userId \in rooms[w]}

\* userConnections.size === 0 after the delete (line 532)
LastConnection(conns, userId, s) == conns[userId] \ {s} = {}

\* socket.on('disconnect') of socketHandlers.js
PresenceDisconnectHandler(pr, s) ==
  LET userId == pr.socks[s].userId
  IN IF userId \notin DOMAIN pr.conns THEN pr
     ELSE IF ~LastConnection(pr.conns, userId, s)
     THEN [pr EXCEPT !.conns[userId] = @ \ {s}]
     ELSE LET ws == SeqOfWorkspaces(WorkspacesOf(pr.rooms, userId))
              f[i \in 0..Len(ws)] ==
                IF i = 0 THEN [pr EXCEPT !.conns = MapRemove(@, userId)]
                ELSE [updateUserPresence(f[i - 1], userId, ws[i], "offline") EXCEPT
                        !.out = Append(@, Msg("user_offline", WorkspaceRoom(ws[i]),
                                              s, NoCall, userId, ws[i])),
                        !.rooms = UntrackWorkspaceUser(@, ws[i], userId)]
          IN f[Len(ws)]

\* the tail of join_workspaces after the lookup (lines 66-96);
\* validWorkspaceIds are the workspaces of the membership rows returned and
\* lastWs that of the last row, the one userPresence keeps: the loop is run
\* in the order of WorkspaceOrder and its turn for lastWs once more, last
JoinWorkspacesTail(pr, s, validWorkspaceIds, error, lastWs) ==
  LET userId == pr.socks[s].userId
      ws == SeqOfWorkspaces(validWorkspaceIds)
      f[i \in 0..Len(ws)] ==
        IF i = 0 THEN pr
        ELSE [updateUserPresence(f[i - 1], userId, ws[i], "online") EXCEPT
                !.socks = SocketJoin(@, s, WorkspaceRoom(ws[i])),
                !.rooms = TrackWorkspaceUser(@, ws[i], userId)]
      g[i \in 0..Len(ws)] ==
        IF i = 0
        THEN IF validWorkspaceIds = {} THEN f[Len(ws)]
             ELSE updateUserPresence(f[Len(ws)], userId, lastWs, "online")
        ELSE [g[i - 1] EXCEPT
                !.out = Append(@, Msg("user_online", WorkspaceRoom(ws[i]), s,
                                      NoCall, userId, ws[i]))]
  IN IF error
     THEN [pr EXCEPT !.out = Append(@, ErrorMsg("error", s,
                                    "Failed to verify workspace memberships"))]
     ELSE [g[Len(ws)] EXCEPT
             !.out = Append(@, Msg("workspaces_joined", ToSocket(s), 0, NoCall, "", ""))]

\* the tail of update_presence after the lookup (lines 486-498)
UpdatePresenceTail(pr, s, workspaceId, status, ok) ==
  LET userId == pr.socks[s].userId
  IN IF ~ok THEN pr
     ELSE [updateUserPresence(pr, userId, workspaceId, status) EXCEPT
             !.out = Append(@, Msg("presence_updated", WorkspaceRoom(workspaceId), s,
                                   NoCall, userId, workspaceId))]

\* ---------------------------------------------------------------- actions
\* An event with synchronous listeners runs them one after the other, once
\* per registration.
RunAccept(st, s, callId) ==
  LET f[i \in 0..Len(Registrations)] ==
        IF i = 0 THEN st ELSE AcceptCallHandler(f[i - 1], s, callId)
  IN f[Len(Registrations)]
RunReject(st, s, callId) ==
  LET f[i \in 0..Len(Registrations)] ==
        IF i = 0 THEN st ELSE RejectCallHandler(f[i - 1], s, callId)
  IN f[Len(Registrations)]
RunEnd(st, s, callId) ==
  LET f[i \in 0..Len(Registrations)] ==
        IF i = 0 THEN st ELSE EndCallHandler(f[i - 1], s, callId)
  IN f[Len(Registrations)]
RunLeave(st, s, callId) ==
  LET f[i \in 0..Len(Registrations)] ==
        IF i = 0 THEN st ELSE LeaveGroupCallHandler(f[i - 1], s, callId)
  IN f[Len(Registrations)]
\* the 'disconnect' listeners of webrtcHandlers.js numbered from..to
RunCallDisconnect(st, s, from, to) ==
  LET f[i \in (from - 1)..to] ==
        IF i = from - 1 THEN st ELSE CallDisconnectHandler(f[i - 1], s)
  IN IF to < from THEN st ELSE f[to]

Init ==
  /\ sockets = <<>>
  /\ activeConnections = EmptyMap
  /\ workspaceRooms = EmptyMap
  /\ userPresence = EmptyMap
  /\ activeCalls = <<>>
  /\ userCalls = EmptyMap
  /\ pending = {}
  /\ out = <<>>
  /\ events = 0
  /\ messages = <<>>
  /\ newMessages = <<>>
  /\ presenceWrites = {}
  /\ user_presence = EmptyMap
  /\ yconns = <<>>
  /\ saves = <<>>
  /\ now = 1
  /\ received = {}
  /\ documents = {}
  /\ workspace_members = [m \in Users \X Workspaces |-> NoRow]
  /\ res = NoResponse

\* one more client event
ClientEvent == events < MaxEvents /\ events' = events + 1

\* io.on('connection') of socketHandlers.js (lines 44-54); the two
\* connection listeners of webrtcHandlers.js only register listeners
Accept(u, max) ==
  /\ Len(sockets) < max
  /\ LET s == Len(sockets) + 1
     IN /\ sockets' = Append(sockets, [userId |-> u, connected |-> TRUE,
                                       rooms |-> {UserRoom(u)}])
        /\ activeConnections' =
             IF u \in DOMAIN activeConnections
             THEN [activeConnections EXCEPT ![u] = @ \cup {s}]
             ELSE MapPut(activeConnections, u, {s})
  /\ out' = <<>>
  /\ UNCHANGED <<workspaceRooms, userPresence, activeCalls, userCalls, pending, events>>
  /\ UNCHANGED <<stores, yjs, http>>

Connect(u) == Accept(u, MaxSockets)
ConnectJoiner(u) == Accept(u, MaxJoiners)

\* The transport closed: socket.io leaves every room of the socket, then
\* runs the 'disconnect' listeners in registration order: webrtcHandlers
\* (registered from socketHandlers.js:12), socketHandlers, webrtcHandlers
\* (registered from server.js:102).
Disconnect(s) ==
  /\ ClientEvent
  /\ Live(s)
  /\ LET closed == [sockets EXCEPT ![s].connected = FALSE, ![s].rooms = {}]
         n == Len(Registrations)
         st1 == RunCallDisconnect(St(activeCalls, userCalls, closed, <<>>), s, 1, 1)
         pr == PresenceDisconnectHandler(
                 Pr(activeConnections, workspaceRooms, userPresence, closed, st1.out), s)
         st2 == RunCallDisconnect([st1 EXCEPT !.out = pr.out], s, 2, n)
     IN /\ sockets' = closed
        /\ activeConnections' = pr.conns
        /\ workspaceRooms' = pr.rooms
        /\ userPresence' = pr.up
        /\ presenceWrites' = pr.writes
        /\ activeCalls' = st2.calls
        /\ userCalls' = st2.ucalls
        /\ out' = st2.out
  /\ UNCHANGED <<pending, chat, user_presence, yjs, http>>

ApplyCalls(st) ==
  /\ activeCalls' = st.calls
  /\ userCalls' = st.ucalls
  /\ sockets' = st.socks
  /\ out' = st.out

\* accept_call, reject_call, end_call, leave_group_call: synchronous listeners
AcceptCall(s, callId) ==
  /\ ClientEvent
  /\ Live(s)
  /\ ApplyCalls(RunAccept(CallSt, s, callId))
  /\ UNCHANGED <<activeConnections, workspaceRooms, userPresence, pending, stores, yjs, http>>

RejectCall(s, callId) ==
  /\ ClientEvent
  /\ Live(s)
  /\ ApplyCalls(RunReject(CallSt, s, callId))
  /\ UNCHANGED <<activeConnections, workspaceRooms, userPresence, pending, stores, yjs, http>>

EndCall(s, callId) ==
  /\ ClientEvent
  /\ Live(s)
  /\ ApplyCalls(RunEnd(CallSt, s, callId))
  /\ UNCHANGED <<activeConnections, workspaceRooms, userPresence, pending, stores, yjs, http>>

LeaveGroupCall(s, callId) ==
  /\ ClientEvent
  /\ Live(s)
  /\ ApplyCalls(RunLeave(CallSt, s, callId))
  /\ UNCHANGED <<activeConnections, workspaceRooms, userPresence, pending, stores, yjs, http>>

\* A client event with async listeners: each listener runs to its first
\* await, which changes nothing, and is suspended there.
Dispatch(op, s, ws, target, ctype, wss, status, n) ==
  /\ ClientEvent
  /\ Live(s)
  /\ BusySlots # Slots
  /\ pending' = pending \cup
       {Listener(FreeSlot, h, op, s, ws, target, ctype, wss, status) : h \in 1..n}
  /\ out' = <<>>
  /\ UNCHANGED <<sockets, activeConnections, workspaceRooms, userPresence,
                 activeCalls, userCalls, stores, yjs, http>>

StartVideoCall(s, target, ws, ctype) ==
  Dispatch("start_video_call", s, ws, target, ctype, {}, "", Len(Registrations))
JoinGroupCall(s, ws) ==
  Dispatch("join_group_call", s, ws, "", "", {}, "", Len(Registrations))
JoinWorkspaces(s, wss) == Dispatch("join_workspaces", s, "", "", "", wss, "", 1)
UpdatePresence(s, ws, status) == Dispatch("update_presence", s, ws, "", "", {}, status, 1)

\* start_video_call: both membership lookups have returned (lines 22-76);
\* okCaller and okTarget are what they returned, n the id generated
ResumeStartVideoCall(p, okCaller, okTarget, n) ==
  /\ p.op = "start_video_call" /\ NextToResume(p)
  /\ LET ok == StartCheck(okCaller, okTarget)
     IN /\ ApplyCalls(StartVideoCallTail(CallSt, p.sock, p.target, p.ws, p.ctype, ok,
                                         CallIdOf(n)))
        /\ pending' = Siblings(p, IF ok /\ ~HasCall(activeCalls, CallIdOf(n))
                                   THEN 1 ELSE 0)
  /\ UNCHANGED <<activeConnections, workspaceRooms, userPresence, events, stores, yjs, http>>

\* join_group_call: the membership row arrives (lines 184-245);
\* ok is what the lookup returned, t the Date.now() of a new call id
ResumeJoinGroupCall(p, ok, t) ==
  /\ p.op = "join_group_call" /\ NextToResume(p)
  /\ LET newId == GroupCallIdOf(p.ws, t)
         found == FindGroupCall(activeCalls, p.ws)
     IN /\ ApplyCalls(JoinGroupCallTail(CallSt, p.sock, p.ws, ok, newId))
        /\ pending' = Siblings(p, IF ok /\ found = NoCall THEN 1 ELSE 0)
  /\ UNCHANGED <<activeConnections, workspaceRooms, userPresence, events, stores, yjs, http>>

ApplyPresence(pr) ==
  /\ activeConnections' = pr.conns
  /\ workspaceRooms' = pr.rooms
  /\ userPresence' = pr.up
  /\ presenceWrites' = pr.writes
  /\ sockets' = pr.socks
  /\ out' = pr.out

PresenceSt == Pr(activeConnections, workspaceRooms, userPresence, sockets, <<>>)

\* join_workspaces: the membership rows arrive, or an error (lines 60-96)
ResumeJoinWorkspaces(p, error, valid, lastWs) ==
  /\ p.op = "join_workspaces"
  /\ ApplyPresence(JoinWorkspacesTail(PresenceSt, p.sock, valid, error, lastWs))
  /\ pending' = pending \ {p}
  /\ UNCHANGED <<activeCalls, userCalls, events, chat, user_presence, yjs, http>>

\* update_presence: the membership row arrives (lines 479-498)
ResumeUpdatePresence(p, ok) ==
  /\ p.op = "update_presence"
  /\ ApplyPresence(UpdatePresenceTail(PresenceSt, p.sock, p.ws, p.status, ok))
  /\ pending' = pending \ {p}
  /\ UNCHANGED <<activeCalls, userCalls, events, chat, user_presence, yjs, http>>

\* the rows a join_workspaces lookup can return for the ids it asked for:
\* the workspaces of the rows and the workspace of the last row
MembershipRows(wss) ==
  {<<valid, lastWs>> \in (SUBSET wss) \X (wss \cup {""}) :
     IF valid = {} THEN lastWs = "" ELSE lastWs \in valid}

ConnectionSteps ==
  \/ \E u \in Users : Connect(u)
  \/ \E s \in DOMAIN sockets : Disconnect(s)

CallSteps ==
  \/ \E s \in DOMAIN sockets, target \in Users, ws \in CallWorkspaces, ctype \in CallTypes :
       StartVideoCall(s, target, ws, ctype)
  \/ \E s \in DOMAIN sockets, ws \in CallWorkspaces : JoinGroupCall(s, ws)
  \/ \E p \in pending, okCaller \in LookupResults, okTarget \in LookupResults,
        n \in 1..MaxRand : ResumeStartVideoCall(p, okCaller, okTarget, n)
  \/ \E p \in pending, ok \in LookupResults, t \in 1..MaxStamp :
       ResumeJoinGroupCall(p, ok, t)
  \/ \E s \in DOMAIN sockets, callId \in NameableCallIds : AcceptCall(s, callId)
  \/ \E s \in DOMAIN sockets, callId \in NameableCallIds : RejectCall(s, callId)
  \/ \E s \in DOMAIN sockets, callId \in NameableCallIds : EndCall(s, callId)
  \/ \E s \in DOMAIN sockets, callId \in NameableCallIds : LeaveGroupCall(s, callId)

PresenceSteps ==
  \/ \E s \in DOMAIN sockets, wss \in SUBSET Workspaces : JoinWorkspaces(s, wss)
  \/ \E s \in DOMAIN sockets, ws \in Workspaces, status \in Statuses :
       UpdatePresence(s, ws, status)
  \/ \E p \in pending, error \in BOOLEAN :
       \E rows \in MembershipRows(p.wss) :
          ResumeJoinWorkspaces(p, error, rows[1], rows[2])
  \/ \E p \in pending, ok \in LookupResults : ResumeUpdatePresence(p, ok)

\* socket.on('webrtc_offer' | 'webrtc_answer' | 'webrtc_ice_candidate'):
\* socket.to(`user:${targetUserId}`).emit(ev, { fromUserId, ..., callId })
RelayHandler(st, s, ev, targetUserId, callId) ==
  Emit(st, Msg(ev, UserRoom(targetUserId), s, callId, st.socks[s].userId, ""))

\* the listeners of one signalling event, one per registration
RunRelay(st, s, ev, targetUserId, callId) ==
  LET f[i \in 0..Len(Registrations)] ==
        IF i = 0 THEN st ELSE RelayHandler(f[i - 1], s, ev, targetUserId, callId)
  IN f[Len(Registrations)]

Relay(s, ev, targetUserId, callId) ==
  /\ ClientEvent
  /\ Live(s)
  /\ ApplyCalls(RunRelay(CallSt, s, ev, targetUserId, callId))
  /\ UNCHANGED <<activeConnections, workspaceRooms, userPresence, pending, stores, yjs, http>>

WebrtcOffer(s, targetUserId, callId) == Relay(s, "webrtc_offer", targetUserId, callId)
WebrtcAnswer(s, targetUserId, callId) == Relay(s, "webrtc_answer", targetUserId, callId)
WebrtcIceCandidate(s, targetUserId, callId) ==
  Relay(s, "webrtc_ice_candidate", targetUserId, callId)

\* the signalling relays, with the group calls they signal for
RelaySteps ==
  \/ \E s \in DOMAIN sockets, u \in Users, callId \in NameableCallIds :
       WebrtcOffer(s, u, callId)
  \/ \E s \in DOMAIN sockets, u \in Users, callId \in NameableCallIds :
       WebrtcAnswer(s, u, callId)
  \/ \E s \in DOMAIN sockets, u \in Users, callId \in NameableCallIds :
       WebrtcIceCandidate(s, u, callId)
  \/ \E s \in DOMAIN sockets, ws \in CallWorkspaces : JoinGroupCall(s, ws)
  \/ \E p \in pending, ok \in LookupResults, t \in 1..MaxStamp :
       ResumeJoinGroupCall(p, ok, t)

NextRelay == ConnectionSteps \/ RelaySteps
SpecRelay == Init /\ [][NextRelay]_vars

\* the group call listeners alone, for up to MaxJoiners users
GroupCallSteps ==
  \/ \E u \in Joiners : ConnectJoiner(u)
  \/ \E s \in DOMAIN sockets : Disconnect(s)
  \/ \E s \in DOMAIN sockets, ws \in CallWorkspaces : JoinGroupCall(s, ws)
  \/ \E p \in pending, ok \in LookupResults, t \in 1..MaxStamp :
       ResumeJoinGroupCall(p, ok, t)
  \/ \E s \in DOMAIN sockets, callId \in NameableCallIds : LeaveGroupCall(s, callId)

NextGroupCalls == GroupCallSteps
SpecGroupCalls == Init /\ [][NextGroupCalls]_vars

\* the call index with the connections it serves
NextCalls == ConnectionSteps \/ CallSteps
SpecCalls == Init /\ [][NextCalls]_vars

\* the presence registry with the connections it serves
NextPresence == ConnectionSteps \/ PresenceSteps

\* variant of the continuation that undoes the record when the write failed
PresenceWriteTailRollsBack(up, w, result) ==
  IF result = "ok" THEN up ELSE MapRemove(up, w.user_id)

\* updateUserPresence after its await (lines 583-585): nothing is done with
\* the result, and a rejection is caught and logged
PresenceWriteTail(up, w, result) == up

\* an upsert returns: the row is written, or the write failed ("error") or
\* was rejected ("throws")
PresenceWritten(w, result) ==
  /\ presenceWrites' = presenceWrites \ {w}
  /\ user_presence' =
       IF result = "ok"
       THEN MapPut(user_presence, <<w.user_id, w.workspace_id>>, w.status)
       ELSE user_presence
  /\ userPresence' = PresenceWriteTail(userPresence, w, result)
  /\ out' = <<>>
  /\ UNCHANGED <<sockets, activeConnections, workspaceRooms, activeCalls, userCalls,
                 pending, events, chat, yjs, http>>

PresenceWriteSteps ==
  \E w \in presenceWrites, result \in {"ok", "error", "throws"} : PresenceWritten(w, result)

NextPresenceWrites == ConnectionSteps \/ PresenceSteps \/ PresenceWriteSteps
SpecPresenceWrites == Init /\ [][NextPresenceWrites]_vars
SpecPresence == Init /\ [][NextPresence]_vars

Next == ConnectionSteps \/ CallSteps \/ PresenceSteps
Spec == Init /\ [][Next]_vars

\* ------------------------------------------------------------ chat rooms
ChatRooms == {"r1"}
ChatRoom(r) == [k |-> "room", s |-> 0, n |-> r, c |-> NoCall]    \* `room:${roomId}`

\* An async listener of socketHandlers.js suspended at an await. evt numbers
\* the client events in the order they arrived; stage is the await it is at.
Suspended(op, s, id, stage) ==
  [evt |-> MaxInflight + events + 1, h |-> 1, op |-> op, sock |-> s, id |-> id,
   stage |-> stage, member |-> FALSE, createdAt |-> 0]

\* the event arrives and its listener runs up to its first await
Suspend(op, s, id, stage) ==
  /\ ClientEvent
  /\ Live(s)
  /\ Cardinality(pending) < MaxSuspended
  /\ pending' = pending \cup {Suspended(op, s, id, stage)}
  /\ out' = <<>>
  /\ UNCHANGED <<sockets, activeConnections, workspaceRooms, userPresence,
                 activeCalls, userCalls, stores, yjs, http>>

\* a listener ends: it emits, and a join subscribes its socket
Finish(p, socks, o) ==
  /\ pending' = pending \ {p}
  /\ sockets' = socks
  /\ out' = o
  /\ UNCHANGED <<activeConnections, workspaceRooms, userPresence, activeCalls,
                 userCalls, events>>

JoinChatRoom(s, roomId) == Suspend("join_chat_room", s, roomId, "membership")

\* join_chat_room after the lookup (lines 179-185); ok is `!(error || !membership)`
JoinChatRoomTail(socks, s, roomId, ok) ==
  IF ~ok
  THEN [socks |-> socks, out |-> <<ErrorMsg("error", s, "Not a member of this chat room")>>]
  ELSE [socks |-> SocketJoin(socks, s, ChatRoom(roomId)),
        out |-> <<Msg("chat_room_joined", ToSocket(s), 0, NoCall, "", roomId)>>]

ResumeJoinChatRoom(p, ok) ==
  /\ p.op = "join_chat_room"
  /\ LET r == JoinChatRoomTail(sockets, p.sock, p.id, ok)
     IN Finish(p, r.socks, r.out)
  /\ UNCHANGED <<stores, yjs, http>>

\* socket.on('leave_chat_room')
LeaveChatRoom(s, roomId) ==
  /\ ClientEvent
  /\ Live(s)
  /\ sockets' = SocketLeave(sockets, s, ChatRoom(roomId))
  /\ out' = <<Msg("chat_room_left", ToSocket(s), 0, NoCall, "", roomId)>>
  /\ UNCHANGED <<activeConnections, workspaceRooms, userPresence, activeCalls,
                 userCalls, pending, stores, yjs, http>>

\* ---------------------------------------------------------- send_message
\* io.to(`room:${roomId}`).emit('new_message', { id, ..., createdAt, sender })
NewMessage(roomId, id, createdAt, sender) ==
  [ev |-> "new_message", to |-> ChatRoom(roomId), except |-> 0, id |-> id,
   createdAt |-> createdAt, user |-> sender]

SendMessage(s, roomId) == Suspend("send_message", s, roomId, "membership")

\* send_message after the membership lookup (lines 117-122): the insert is
\* requested only for a member; ok is `!(error || !membership)`
ResumeSendMessageMembership(p, ok) ==
  /\ p.op = "send_message" /\ p.stage = "membership"
  /\ IF ok
     THEN /\ pending' = (pending \ {p}) \cup
               {[p EXCEPT !.stage = "insert", !.member = ok]}
          /\ out' = <<>>
     ELSE /\ pending' = pending \ {p}
          /\ out' = <<ErrorMsg("error", p.sock, "Not a member of this chat room")>>
  /\ UNCHANGED <<sockets, activeConnections, workspaceRooms, userPresence,
                 activeCalls, userCalls, events, stores, yjs, http>>

\* the timestamps the database can give a new row: its clock never runs back
Timestamps ==
  {t \in 1..MaxCreatedAt :
     \A i \in 1..Len(messages) : messages[i].created_at <= t}

\* The database executes the insert (lines 124-143): the row gets
\* created_at = NOW(), or the insert is refused. The reply is under way.
StoreMessage(p, ok, t) ==
  /\ p.op = "send_message" /\ p.stage = "insert"
  /\ IF ok
     THEN /\ t \in Timestamps
          /\ messages' = Append(messages,
               [id |-> p.evt, room_id |-> p.id, sender_id |-> sockets[p.sock].userId,
                created_at |-> t])
          /\ pending' = (pending \ {p}) \cup
               {[p EXCEPT !.stage = "stored", !.createdAt = t]}
     ELSE /\ t = 1
          /\ messages' = messages
          /\ pending' = (pending \ {p}) \cup {[p EXCEPT !.stage = "refused"]}
  /\ out' = <<>>
  /\ UNCHANGED <<sockets, activeConnections, workspaceRooms, userPresence,
                 activeCalls, userCalls, events, newMessages, presenceWrites, user_presence,
                 yjs, http>>

\* variant of the tail that does not look at messageError
SendMessageTailUnchecked(p, sender) == <<NewMessage(p.id, p.evt, p.createdAt, sender)>>

\* send_message after the insert returned (lines 145-158)
SendMessageTail(p, sender) ==
  IF p.stage = "refused"
  THEN <<ErrorMsg("error", p.sock, "Failed to send message")>>
  ELSE <<NewMessage(p.id, p.evt, p.createdAt, sender)>>

ResumeSendMessageInsert(p) ==
  /\ p.op = "send_message" /\ p.stage \in {"stored", "refused"}
  /\ pending' = pending \ {p}
  /\ out' = SendMessageTail(p, sockets[p.sock].userId)
  /\ newMessages' = newMessages \o
       [i \in 1..Len(SelectSeq(out', LAMBDA m : m.ev = "new_message")) |->
          [from |-> p.sock, event |-> SelectSeq(out', LAMBDA m : m.ev = "new_message")[i]]]
  /\ UNCHANGED <<sockets, activeConnections, workspaceRooms, userPresence,
                 activeCalls, userCalls, events, messages, presenceWrites, user_presence,
                 yjs, http>>

ChatSteps ==
  \/ \E s \in DOMAIN sockets, r \in ChatRooms : JoinChatRoom(s, r)
  \/ \E p \in pending, ok \in LookupResults : ResumeJoinChatRoom(p, ok)
  \/ \E s \in DOMAIN sockets, r \in ChatRooms : LeaveChatRoom(s, r)
  \/ \E s \in DOMAIN sockets, r \in ChatRooms : SendMessage(s, r)
  \/ \E p \in pending, ok \in LookupResults : ResumeSendMessageMembership(p, ok)
  \/ \E p \in pending, ok \in BOOLEAN, t \in 1..MaxCreatedAt : StoreMessage(p, ok, t)
  \/ \E p \in pending : ResumeSendMessageInsert(p)

NextChat == ConnectionSteps \/ ChatSteps
SpecChat == Init /\ [][NextChat]_vars

\* ----------------------------------------------------------- task boards
Boards == {"b1"}
Board(b) == [k |-> "board", s |-> 0, n |-> b, c |-> NoCall]      \* `board:${boardId}`
TaskEvents ==
  {"task_created", "task_updated", "task_moved", "task_deleted", "list_created"}

JoinTaskBoard(s, boardId) == Suspend("join_task_board", s, boardId, "board")

\* join_task_board after the lookup (lines 213-219); ok is `!(error || !board)`
JoinTaskBoardTail(socks, s, boardId, ok) ==
  IF ~ok
  THEN [socks |-> socks, out |-> <<ErrorMsg("error", s, "Access denied to task board")>>]
  ELSE [socks |-> SocketJoin(socks, s, Board(boardId)),
        out |-> <<Msg("task_board_joined", ToSocket(s), 0, NoCall, "", boardId)>>]

ResumeJoinTaskBoard(p, ok) ==
  /\ p.op = "join_task_board"
  /\ LET r == JoinTaskBoardTail(sockets, p.sock, p.id, ok)
     IN Finish(p, r.socks, r.out)
  /\ UNCHANGED <<stores, yjs, http>>

\* socket.on('leave_task_board')
LeaveTaskBoard(s, boardId) ==
  /\ ClientEvent
  /\ Live(s)
  /\ sockets' = SocketLeave(sockets, s, Board(boardId))
  /\ out' = <<Msg("task_board_left", ToSocket(s), 0, NoCall, "", boardId)>>
  /\ UNCHANGED <<activeConnections, workspaceRooms, userPresence, activeCalls,
                 userCalls, pending, stores, yjs, http>>

\* task_created, task_updated, task_moved, task_deleted, list_created: five
\* listeners with the same two lookups and the same broadcast, apart from
\* the name of the event and of the field that carries socket.user
TaskEvent(s, ev, boardId) == Suspend(ev, s, boardId, "board")

\* after the board lookup: `if (error || !board) return;`
ResumeTaskEventBoard(p, ok) ==
  /\ p.op \in TaskEvents /\ p.stage = "board"
  /\ pending' = IF ok THEN (pending \ {p}) \cup {[p EXCEPT !.stage = "membership"]}
                      ELSE pending \ {p}
  /\ out' = <<>>
  /\ UNCHANGED <<sockets, activeConnections, workspaceRooms, userPresence,
                 activeCalls, userCalls, events, stores, yjs, http>>

\* variant of the tail without `if (!membership) return;`
TaskEventTailUnchecked(ev, s, actor, boardId, membership) ==
  <<Msg(ev, Board(boardId), s, NoCall, actor, boardId)>>

\* after the membership lookup: `if (!membership) return;` and
\* socket.to(`board:${boardId}`).emit(ev, { boardId, ..., createdBy: socket.user })
TaskEventTail(ev, s, actor, boardId, membership) ==
  IF ~membership THEN <<>>
  ELSE <<Msg(ev, Board(boardId), s, NoCall, actor, boardId)>>

ResumeTaskEventMembership(p, membership) ==
  /\ p.op \in TaskEvents /\ p.stage = "membership"
  /\ Finish(p, sockets,
            TaskEventTail(p.op, p.sock, sockets[p.sock].userId, p.id, membership))
  /\ UNCHANGED <<stores, yjs, http>>

BoardSteps ==
  \/ \E s \in DOMAIN sockets, b \in Boards : JoinTaskBoard(s, b)
  \/ \E p \in pending, ok \in LookupResults : ResumeJoinTaskBoard(p, ok)
  \/ \E s \in DOMAIN sockets, b \in Boards : LeaveTaskBoard(s, b)
  \/ \E s \in DOMAIN sockets, ev \in TaskEvents, b \in Boards : TaskEvent(s, ev, b)
  \/ \E p \in pending, ok \in LookupResults : ResumeTaskEventBoard(p, ok)
  \/ \E p \in pending, ok \in LookupResults : ResumeTaskEventMembership(p, ok)

NextBoards == ConnectionSteps \/ BoardSteps
SpecBoards == Init /\ [][NextBoards]_vars

\* ------------------------------------------------------ document channels
Documents == {"d1"}
DocumentRoom(d) == [k |-> "document", s |-> 0, n |-> d, c |-> NoCall]  \* `document:${documentId}`

DocumentJoin(s, documentId) == Suspend("document_join", s, documentId, "access")

\* variant of the tail that subscribes before it looks at the lookup
DocumentJoinTailJoinsFirst(socks, s, documentId, ok) ==
  IF ~ok
  THEN [socks |-> SocketJoin(socks, s, DocumentRoom(documentId)),
        out |-> <<ErrorMsg("error", s, "No access to this document")>>]
  ELSE [socks |-> SocketJoin(socks, s, DocumentRoom(documentId)),
        out |-> <<Msg("document_joined", ToSocket(s), 0, NoCall, "", documentId),
                  Msg("collaborator_joined", DocumentRoom(documentId), s, NoCall,
                      socks[s].userId, documentId)>>]

\* document_join after the lookup (lines 423-435); ok is `!(error || !access)`
DocumentJoinTail(socks, s, documentId, ok) ==
  IF ~ok
  THEN [socks |-> socks, out |-> <<ErrorMsg("error", s, "No access to this document")>>]
  ELSE [socks |-> SocketJoin(socks, s, DocumentRoom(documentId)),
        out |-> <<Msg("document_joined", ToSocket(s), 0, NoCall, "", documentId),
                  Msg("collaborator_joined", DocumentRoom(documentId), s, NoCall,
                      socks[s].userId, documentId)>>]

ResumeDocumentJoin(p, ok) ==
  /\ p.op = "document_join"
  /\ LET r == DocumentJoinTail(sockets, p.sock, p.id, ok)
     IN Finish(p, r.socks, r.out)
  /\ UNCHANGED <<stores, yjs, http>>

\* socket.on('document_leave')
DocumentLeave(s, documentId) ==
  /\ ClientEvent
  /\ Live(s)
  /\ sockets' = SocketLeave(sockets, s, DocumentRoom(documentId))
  /\ out' = <<Msg("collaborator_left", DocumentRoom(documentId), s, NoCall,
                  sockets[s].userId, documentId)>>
  /\ UNCHANGED <<activeConnections, workspaceRooms, userPresence, activeCalls,
                 userCalls, pending, stores, yjs, http>>

\* every listener that subscribes a socket to a channel, or unsubscribes it
ChannelSteps ==
  \/ \E s \in DOMAIN sockets, wss \in SUBSET Workspaces : JoinWorkspaces(s, wss)
  \/ \E p \in {q \in pending : q.op = "join_workspaces"}, error \in BOOLEAN :
       \E rows \in MembershipRows(p.wss) :
          ResumeJoinWorkspaces(p, error, rows[1], rows[2])
  \/ \E s \in DOMAIN sockets, r \in ChatRooms : JoinChatRoom(s, r)
  \/ \E p \in pending, ok \in LookupResults : ResumeJoinChatRoom(p, ok)
  \/ \E s \in DOMAIN sockets, r \in ChatRooms : LeaveChatRoom(s, r)
  \/ \E s \in DOMAIN sockets, b \in Boards : JoinTaskBoard(s, b)
  \/ \E p \in pending, ok \in LookupResults : ResumeJoinTaskBoard(p, ok)
  \/ \E s \in DOMAIN sockets, b \in Boards : LeaveTaskBoard(s, b)
  \/ \E s \in DOMAIN sockets, d \in Documents : DocumentJoin(s, d)
  \/ \E p \in pending, ok \in LookupResults : ResumeDocumentJoin(p, ok)
  \/ \E s \in DOMAIN sockets, d \in Documents : DocumentLeave(s, d)

NextChannels == ConnectionSteps \/ ChannelSteps
SpecChannels == Init /\ [][NextChannels]_vars

\* ------------------------------------------------- relayed channel events
WhiteboardEvents == {"wb_begin", "wb_draw", "wb_line"}

\* socket.on('typing_start') and socket.on('typing_stop'):
\* socket.to(`room:${roomId}`).emit('user_typing', { userId, user, isTyping })
Typing(s, roomId, isTyping) ==
  /\ ClientEvent
  /\ Live(s)
  /\ out' = <<[Msg("user_typing", ChatRoom(roomId), s, NoCall, sockets[s].userId, "")
                 EXCEPT !.message = IF isTyping THEN "isTyping: true"
                                    ELSE "isTyping: false"]>>
  /\ UNCHANGED <<sockets, activeConnections, workspaceRooms, userPresence, activeCalls,
                 userCalls, pending, stores, yjs, http>>

TypingStart(s, roomId) == Typing(s, roomId, TRUE)
TypingStop(s, roomId) == Typing(s, roomId, FALSE)

\* socket.on('wb_begin' | 'wb_draw' | 'wb_line') with a workspaceId:
\* socket.to(`workspace:${workspaceId}`).emit(ev, { ... })
Whiteboard(s, ev, workspaceId) ==
  /\ ClientEvent
  /\ Live(s)
  /\ out' = <<Msg(ev, WorkspaceRoom(workspaceId), s, NoCall, "", "")>>
  /\ UNCHANGED <<sockets, activeConnections, workspaceRooms, userPresence, activeCalls,
                 userCalls, pending, stores, yjs, http>>

BroadcastSteps ==
  \/ \E s \in DOMAIN sockets, r \in ChatRooms : TypingStart(s, r)
  \/ \E s \in DOMAIN sockets, r \in ChatRooms : TypingStop(s, r)
  \/ \E s \in DOMAIN sockets, ev \in WhiteboardEvents, w \in Workspaces :
       Whiteboard(s, ev, w)

NextBroadcasts == ConnectionSteps \/ ChannelSteps \/ BroadcastSteps
SpecBroadcasts == Init /\ [][NextBroadcasts]_vars

\* ------------------------------------------------- document connections
\* `ws.updateCount % 10 === 0 || (Date.now() - ws.lastSave) > 30000`
SaveEveryUpdates == 10
SaveIntervalMs == 30000
Permissions == {"read", "write", "admin"}

\* wss.on('connection') once the token, the user and the collaborator row
\* have been found (lines 17-76): ws.updateCount and ws.lastSave are not set
\* yet, which the listener of 'message' reads as 0
YConnect(permission) ==
  /\ Len(yconns) < MaxYConns
  /\ yconns' = Append(yconns, [permission |-> permission, updateCount |-> 0,
                               lastSave |-> 0, triggeredAt |-> 0, persists |-> 0])
  /\ UNCHANGED <<sockets, activeConnections, workspaceRooms, userPresence,
                 activeCalls, userCalls, pending, out, events, stores, http, saves, now,
                 received, documents>>

\* `content: Array.from(update)`, update the message that triggered the save:
\* the updates the content written holds
SnapshotContent(update) == {update}

ShouldSave(updateCount, lastSave, t) ==
  updateCount % SaveEveryUpdates = 0 \/ (t - lastSave) > SaveIntervalMs

\* ws.on('message') up to `await saveDocumentSnapshot(...)` (lines 79-92).
\* triggeredAt and persists are history: when the connection last called
\* saveDocumentSnapshot, and how often it has.
YMessage(c) ==
  /\ yconns[c].updateCount < MaxUpdates
  /\ LET lastSave == IF yconns[c].lastSave = 0 THEN now ELSE yconns[c].lastSave
         updateCount == yconns[c].updateCount + 1
         shouldSave == ShouldSave(updateCount, lastSave, now)
     IN /\ shouldSave => Len(saves) < MaxSaving
        /\ yconns' = [yconns EXCEPT
             ![c].updateCount = updateCount,
             ![c].lastSave = lastSave,
             ![c].triggeredAt = IF shouldSave THEN now ELSE @,
             ![c].persists = IF shouldSave THEN @ + 1 ELSE @]
        /\ saves' = IF shouldSave
                    THEN Append(saves, [conn |-> c,
                                        content |-> SnapshotContent(<<c, updateCount>>)])
                    ELSE saves
        /\ received' = received \cup {<<c, updateCount>>}
  /\ UNCHANGED <<sockets, activeConnections, workspaceRooms, userPresence,
                 activeCalls, userCalls, pending, out, events, stores, http, now,
                 documents>>

\* saveDocumentSnapshot returns (lines 172-188), the row written (ok) or
\* not, and the listener goes on with `ws.lastSave = Date.now()` (line 93)
YSaved(i, ok) ==
  /\ yconns' = [yconns EXCEPT ![saves[i].conn].lastSave = now]
  /\ saves' = [j \in 1..(Len(saves) - 1) |-> IF j < i THEN saves[j] ELSE saves[j + 1]]
  /\ documents' = IF ok THEN saves[i].content ELSE documents
  /\ UNCHANGED <<sockets, activeConnections, workspaceRooms, userPresence,
                 activeCalls, userCalls, pending, out, events, stores, http, now,
                 received>>

\* time passes: a millisecond, or an idle period of the save interval
Tick(d) ==
  /\ \/ d = 1 /\ now % SaveIntervalMs <= MaxMs
     \/ d = SaveIntervalMs /\ now < SaveIntervalMs * MaxIdle
  /\ now' = now + d
  /\ UNCHANGED <<sockets, activeConnections, workspaceRooms, userPresence,
                 activeCalls, userCalls, pending, out, events, stores, http, yconns, saves,
                 received, documents>>

YjsSteps ==
  \/ \E permission \in Permissions : YConnect(permission)
  \/ \E c \in DOMAIN yconns : YMessage(c)
  \/ \E i \in DOMAIN saves, ok \in BOOLEAN : YSaved(i, ok)
  \/ \E d \in {1, SaveIntervalMs} : Tick(d)

NextYjs == YjsSteps
SpecYjs == Init /\ [][NextYjs]_vars

\* ------------------------------------------------- workspace membership
\* The table changes: a row is inserted, updated or deleted. The check
\* role IN ('owner', 'admin', 'member') lets NULL pass.
SetMember(u, w, role) ==
  /\ workspace_members[<<u, w>>] # role
  /\ workspace_members' = [workspace_members EXCEPT ![<<u, w>>] = role]
  /\ res' = NoResponse
  /\ UNCHANGED <<sockets, activeConnections, workspaceRooms, userPresence,
                 activeCalls, userCalls, pending, out, events, stores, yjs>>

roleHierarchy == [member |-> 1, admin |-> 2, owner |-> 3]
\* `roleHierarchy[role] || fallback`
RoleLevel(role, fallback) ==
  IF role \in DOMAIN roleHierarchy THEN roleHierarchy[role] ELSE fallback

\* variant of the comparison that also refuses the required role itself
RoleTooLowOrEqual(userRoleLevel, requiredRoleLevel) == userRoleLevel <= requiredRoleLevel

\* `userRoleLevel < requiredRoleLevel`
RoleTooLow(userRoleLevel, requiredRoleLevel) == userRoleLevel < requiredRoleLevel

\* The middleware once the lookup has returned (lines 51-72). row is the
\* role of the row found or NoRow; fault is "error" when the lookup returned
\* an error and "throws" when it threw.
WorkspaceAccess(row, fault, requiredRole) ==
  IF fault = "throws" THEN [status |-> "500", workspaceRole |-> ""]
  ELSE IF fault = "error" \/ row = NoRow THEN [status |-> "403", workspaceRole |-> ""]
  ELSE IF RoleTooLow(RoleLevel(row, 0), RoleLevel(requiredRole, 1))
       THEN [status |-> "403", workspaceRole |-> ""]
       ELSE [status |-> "next", workspaceRole |-> row]

requireWorkspaceAccess(u, w, requiredRole, fault) ==
  /\ res' = WorkspaceAccess(workspace_members[<<u, w>>], fault, requiredRole)
  /\ UNCHANGED <<sockets, activeConnections, workspaceRooms, userPresence,
                 activeCalls, userCalls, pending, out, events, stores, yjs,
                 workspace_members>>

HttpSteps ==
  \/ \E u \in Users, w \in Workspaces, role \in Roles \cup {NullRole, NoRow} :
       SetMember(u, w, role)
  \/ \E u \in Users, w \in Workspaces, requiredRole \in Roles,
        fault \in {"none", "error", "throws"} :
       requireWorkspaceAccess(u, w, requiredRole, fault)

NextHttp == HttpSteps
SpecHttp == Init /\ [][NextHttp]_vars

\* ------------------------------------------------------------- properties
\* C1: every call in activeCalls has at least one participant in every
\* reachable state; a leave_group_call or disconnect that removes the last
\* participant deletes the call in the same step.
C1_NoEmptyCall ==
  \A i \in 1..Len(activeCalls) : activeCalls[i].participants # {}

\* a leave_group_call has just succeeded and its call is gone with it
C1_LastLeaverDestroyedCall ==
  \E i \in 1..Len(out) :
    out[i].ev = "left_group_call" /\ ~HasCall(activeCalls, out[i].callId)

\* C2: for every user U and workspace W, getOnlineUsers(W) contains U if
\* and only if a live connection of U is subscribed to workspace:W.
C2_OnlineIffSubscribed ==
  \A u \in Users, w \in Workspaces :
    (u \in getOnlineUsers(workspaceRooms, userPresence, w))
      <=> (\E s \in DOMAIN sockets :
             /\ sockets[s].connected
             /\ sockets[s].userId = u
             /\ WorkspaceRoom(w) \in sockets[s].rooms)

\* C3: the disconnect of the last live connection of U makes U's presence
\* offline, removes U from every workspaceRooms entry and getOnlineUsers
\* result and emits user_offline for each workspace U was in, all in that
\* step; the disconnect of another connection changes neither workspaceRooms
\* nor userPresence and emits no user_offline.
C3_DisconnectDemotesPresence ==
  [][\A s \in DOMAIN sockets :
       Disconnect(s) =>
         LET u == sockets[s].userId
             last == \A x \in DOMAIN sockets :
                       (x # s /\ sockets[x].userId = u) => ~sockets[x].connected
             offline == {i \in 1..Len(out') : out'[i].ev = "user_offline"}
         IN IF last
            THEN /\ u \in DOMAIN userPresence' => userPresence'[u].status = "offline"
                 /\ \A w \in DOMAIN workspaceRooms' : u \notin workspaceRooms'[w]
                 /\ \A w \in Workspaces :
                      u \notin getOnlineUsers(workspaceRooms', userPresence', w)
                 /\ \A w \in WorkspacesOf(workspaceRooms, u) :
                      \E i \in offline : out'[i].user = u /\ out'[i].ws = w
            ELSE /\ workspaceRooms' = workspaceRooms
                 /\ userPresence' = userPresence
                 /\ offline = {}]_vars

\* C4: a start_video_call or join_group_call listener that resumes after the
\* only live connection of its user has disconnected leaves the user in no
\* call's participants and without userCalls entry, as the disconnect did.
C4_DisconnectUnwindsCalls ==
  [][\A p \in pending, okCaller \in LookupResults, okTarget \in LookupResults,
        n \in 1..MaxRand, t \in 1..MaxStamp :
       LET u == sockets[p.sock].userId
           gone == \A x \in DOMAIN sockets : sockets[x].userId = u => ~sockets[x].connected
           inCalls(calls, uc) ==
             u \in DOMAIN uc \/ \E i \in 1..Len(calls) : u \in calls[i].participants
       IN (/\ gone
           /\ ~inCalls(activeCalls, userCalls)
           /\ \/ ResumeStartVideoCall(p, okCaller, okTarget, n)
              \/ ResumeJoinGroupCall(p, okCaller, t))
          => ~inCalls(activeCalls', userCalls')]_vars

\* C5: start_video_call fails closed: when the caller's or the target's
\* membership lookup returns no row or an error, the listener emits one
\* call_error, to the caller's connection and to no other, and leaves
\* activeCalls and userCalls as they were.
C5_StartFailsClosed ==
  [][\A p \in pending, okCaller \in LookupResults, okTarget \in LookupResults,
        n \in 1..MaxRand :
       (~(okCaller /\ okTarget) /\ ResumeStartVideoCall(p, okCaller, okTarget, n))
         => /\ out' = <<ErrorMsg("call_error", p.sock,
                                 "Both users must be in the same workspace")>>
            /\ activeCalls' = activeCalls
            /\ userCalls' = userCalls
            /\ Delivered(sockets', out'[1]) = {s \in {p.sock} : Live(s)}]_vars

\* a start_video_call has just been refused while a call exists
C5_StartRefused ==
  /\ activeCalls # <<>>
  /\ \E i \in 1..Len(out) :
       /\ out[i].ev = "call_error"
       /\ out[i].message = "Both users must be in the same workspace"

\* C6: one successful start_video_call event from A to B adds exactly one
\* call to activeCalls: a listener of the event that has the call it made in
\* activeCalls is the only one of the event to have added a call; the call
\* has A and B as participants and A as initiator, and incoming_call and
\* call_started carry the same call id.
C6_OneEventOneCall ==
  [][\A p \in pending, n \in 1..MaxRand :
       LET callerId == sockets[p.sock].userId
           call == GetCall(activeCalls', CallIdOf(n))
           added == Len(activeCalls') - Len(activeCalls)
       IN (p.target # callerId /\ ResumeStartVideoCall(p, TRUE, TRUE, n))
          => /\ p.made + added = 1
             /\ HasCall(activeCalls', CallIdOf(n))
             /\ call.participants = {callerId, p.target}
             /\ call.startedBy = callerId
             /\ Len(out') = 2
             /\ out'[1].ev = "incoming_call" /\ out'[1].to = UserRoom(p.target)
             /\ out'[2].ev = "call_started" /\ out'[2].to = ToSocket(p.sock)
             /\ out'[1].callId = out'[2].callId]_vars

\* C7: accept_call by a participant moves the call from Ringing to Active,
\* that is, what the program records of the call changes, while the
\* participants stay as they were, the call stays in activeCalls and
\* call_accepted is sent to every participant.
C7_AcceptActivates ==
  [][\A s \in DOMAIN sockets, callId \in NameableCallIds :
       LET userId == sockets[s].userId
           before == GetCall(activeCalls, callId)
           after == GetCall(activeCalls', callId)
       IN (/\ HasCall(activeCalls, callId)
           /\ userId \in before.participants
           /\ AcceptCall(s, callId))
          => /\ HasCall(activeCalls', callId)
             /\ after.participants = before.participants
             /\ \A u \in before.participants :
                  \E i \in 1..Len(out') :
                    out'[i] = Msg("call_accepted", UserRoom(u), 0, callId, userId, "")
             /\ after # before]_vars

\* C8: after reject_call or end_call by a participant, every participant
\* has been sent call_rejected or call_ended, and the call id is in
\* activeCalls no more and in no user's userCalls set.
C8_EndDestroysSession ==
  [][\A s \in DOMAIN sockets, callId \in NameableCallIds :
       LET userId == sockets[s].userId
           before == GetCall(activeCalls, callId)
       IN (/\ HasCall(activeCalls, callId)
           /\ userId \in before.participants
           /\ RejectCall(s, callId) \/ EndCall(s, callId))
          => /\ ~HasCall(activeCalls', callId)
             /\ \A u \in DOMAIN userCalls' : callId \notin userCalls'[u]
             /\ \A u \in before.participants :
                  \E i \in 1..Len(out') :
                    /\ out'[i].ev \in {"call_rejected", "call_ended"}
                    /\ out'[i].to = UserRoom(u)
                    /\ out'[i].callId = callId]_vars

\* C9: accept_call, reject_call, end_call and leave_group_call that name a
\* call id not in activeCalls, or come from a user who is not a participant
\* of the call, emit call_error to the requesting connection and nothing
\* else, and change neither activeCalls nor userCalls nor any subscription.
C9_RefusedCallEventChangesNothing ==
  [][\A s \in DOMAIN sockets, callId \in NameableCallIds :
       (/\ \/ ~HasCall(activeCalls, callId)
           \/ sockets[s].userId \notin GetCall(activeCalls, callId).participants
        /\ \/ AcceptCall(s, callId) \/ RejectCall(s, callId)
           \/ EndCall(s, callId) \/ LeaveGroupCall(s, callId))
       => /\ activeCalls' = activeCalls
          /\ userCalls' = userCalls
          /\ sockets' = sockets
          /\ out' # <<>>
          /\ \A i \in 1..Len(out') :
               /\ out'[i].ev = "call_error"
               /\ out'[i].to = ToSocket(s)
               /\ Delivered(sockets', out'[i]) = {s}]_vars

\* a user who is in no call has just been refused while a call exists
C9_NonParticipantRefused ==
  /\ activeCalls # <<>>
  /\ out # <<>>
  /\ \A i \in 1..Len(out) :
       /\ out[i].ev = "call_error"
       /\ out[i].message = "Call not found or access denied"
       /\ sockets[out[i].to.s].userId \notin DOMAIN userCalls

\* C10: a join_group_call by a user who already is a participant of a group
\* call of the workspace leaves that call as it was, with the user in its
\* participant set, and creates no call.
C10_RejoinIsIdempotent ==
  [][\A p \in pending, ok \in LookupResults, t \in 1..MaxStamp :
       LET userId == sockets[p.sock].userId
           mine == {i \in 1..Len(activeCalls) :
                      /\ activeCalls[i].type = "group"
                      /\ activeCalls[i].workspaceId = p.ws
                      /\ userId \in activeCalls[i].participants}
       IN (mine # {} /\ ResumeJoinGroupCall(p, ok, t))
          => /\ Len(activeCalls') = Len(activeCalls)
             /\ \A i \in mine : activeCalls'[i] = activeCalls[i]]_vars

\* the first listener of a join_group_call event has joined without creating
\* a call and is the only participant: the user was in the call already
C10_SoleParticipantRejoined ==
  \E p \in pending, i \in 1..Len(out) :
    /\ p.op = "join_group_call" /\ p.made = 0
    /\ out[i].ev = "joined_group_call" /\ out[i].to = ToSocket(p.sock)
    /\ out[i].participants = {sockets[p.sock].userId}

\* C11: a join_group_call of a workspace member U leaves one group call for
\* the workspace: with no group call before, a new call with U as the only
\* participant and as initiator; otherwise the call there was, with U added
\* to its participants and nothing else changed.  The participants sent to U
\* in joined_group_call are exactly the participants of that call.
C11_JoinAddsJoiner ==
  [][\A p \in pending, t \in 1..MaxStamp :
       LET userId == sockets[p.sock].userId
           IsGroup(c) == c.type = "group" /\ c.workspaceId = p.ws
           before == {i \in 1..Len(activeCalls) : IsGroup(activeCalls[i])}
           after == {i \in 1..Len(activeCalls') : IsGroup(activeCalls'[i])}
           first == CHOOSE i \in after : \A j \in after : i <= j
       IN ResumeJoinGroupCall(p, TRUE, t)
          => /\ after # {}
             /\ Cardinality(after) = IF before = {} THEN 1 ELSE Cardinality(before)
             /\ IF before = {}
                THEN /\ Len(activeCalls') = Len(activeCalls) + 1
                     /\ activeCalls'[first].participants = {userId}
                     /\ activeCalls'[first].startedBy = userId
                ELSE activeCalls' =
                       [activeCalls EXCEPT ![first].participants = @ \cup {userId}]
             /\ \E i \in 1..Len(out') :
                  /\ out'[i].ev = "joined_group_call"
                  /\ out'[i].to = ToSocket(p.sock)
                  /\ out'[i].callId = activeCalls'[first].id
                  /\ out'[i].participants = activeCalls'[first].participants]_vars

\* the third of three joiners has been sent the three participants
C11_ThirdJoinerSentAll ==
  \E i \in 1..Len(out) :
    /\ out[i].ev = "joined_group_call"
    /\ out[i].participants = Joiners
    /\ Cardinality(Joiners) = 3

\* C12: the disconnect of a connection of U ends all of U's calls: for every
\* call id in userCalls[U] that is a call, U is taken out of the
\* participants, every participant that remains is sent
\* user_disconnected_from_call, a call left without participants is deleted,
\* and userCalls has no entry for U afterwards.
C12_DisconnectEndsAllCalls ==
  [][\A s \in DOMAIN sockets :
       LET userId == sockets[s].userId
           mine == IF userId \in DOMAIN userCalls THEN userCalls[userId] ELSE {}
       IN (mine # {} /\ Disconnect(s))
          => /\ userId \notin DOMAIN userCalls'
             /\ \A callId \in mine :
                  HasCall(activeCalls, callId) =>
                    LET rest == GetCall(activeCalls, callId).participants \ {userId}
                    IN /\ HasCall(activeCalls', callId) <=> rest # {}
                       /\ rest # {} => GetCall(activeCalls', callId).participants = rest
                       /\ \A q \in rest :
                            \E i \in 1..Len(out') :
                              out'[i] = Msg("user_disconnected_from_call", UserRoom(q),
                                            0, callId, userId, "")]_vars

\* a user has just been disconnected from two calls that go on without them
C12_TwoCallsEnded ==
  \E i \in 1..Len(out), j \in 1..Len(out) :
    /\ out[i].ev = "user_disconnected_from_call"
    /\ out[j].ev = "user_disconnected_from_call"
    /\ out[i].user = out[j].user
    /\ out[i].callId # out[j].callId
    /\ HasCall(activeCalls, out[i].callId) /\ HasCall(activeCalls, out[j].callId)

\* C13: webrtc_offer, webrtc_answer and webrtc_ice_candidate are pure
\* relays: the event changes neither activeCalls nor userCalls and emits one
\* event, with the sender's user id and the call id given, to the channel
\* user:<targetUserId>, delivered to connections of the target user only.
C13_RelayEmitsOnce ==
  [][\A s \in DOMAIN sockets, u \in Users, callId \in NameableCallIds :
       \A ev \in {"webrtc_offer", "webrtc_answer", "webrtc_ice_candidate"} :
         Relay(s, ev, u, callId)
           => /\ activeCalls' = activeCalls
              /\ userCalls' = userCalls
              /\ out' = <<Msg(ev, UserRoom(u), s, callId, sockets[s].userId, "")>>
              /\ \A x \in Delivered(sockets', out'[1]) : sockets[x].userId = u]_vars

\* C14: a new_message event is emitted only by a send_message listener whose
\* membership lookup confirmed the sender and whose row is in the messages
\* table; a failed membership lookup or a refused insert emits one error, to
\* the requesting connection alone, and no new_message.
C14_BroadcastOnlyPersisted ==
  [][/\ \A i \in 1..Len(out') :
          out'[i].ev = "new_message" =>
            \E p \in pending \ pending' :
              /\ p.op = "send_message" /\ p.member
              /\ \E j \in 1..Len(messages) :
                   /\ messages[j].id = out'[i].id
                   /\ messages[j].room_id = out'[i].to.n
                   /\ messages[j].created_at = out'[i].createdAt
     /\ \A p \in pending :
          (/\ p.op = "send_message"
           /\ \/ ResumeSendMessageMembership(p, FALSE)
              \/ (p.stage = "refused" /\ ResumeSendMessageInsert(p)))
            => /\ Len(out') = 1
               /\ out'[1].ev = "error" /\ out'[1].to = ToSocket(p.sock)
               /\ Delivered(sockets', out'[1]) \subseteq {p.sock}
               /\ newMessages' = newMessages]_vars

\* a subscriber of the room other than the sender is delivered a new_message
C14_SubscriberGotMessage ==
  \E i \in 1..Len(out) :
    /\ out[i].ev = "new_message"
    /\ \E s \in Delivered(sockets, out[i]) : sockets[s].userId # out[i].user

\* C15: the new_message events of one connection in one room are broadcast
\* in the order of their created_at, whatever the interleaving of the lookups
\* and inserts of its send_message listeners.
C15_BroadcastInStoredOrder ==
  \A i, j \in 1..Len(newMessages) :
    (/\ i < j
     /\ newMessages[i].from = newMessages[j].from
     /\ newMessages[i].event.to = newMessages[j].event.to)
      => newMessages[i].event.createdAt <= newMessages[j].event.createdAt

\* C16: a task_created, task_updated, task_moved, task_deleted or
\* list_created event whose board lookup or membership lookup fails emits
\* nothing, neither a broadcast nor an error; otherwise it emits the event,
\* carrying the actor, to every live subscriber of board:<boardId> except
\* the connection it came from.
C16_TaskEventGated ==
  [][\A p \in pending :
       p.op \in TaskEvents =>
         /\ (ResumeTaskEventBoard(p, FALSE) \/ ResumeTaskEventMembership(p, FALSE))
              => out' = <<>>
         /\ ResumeTaskEventMembership(p, TRUE)
              => /\ Len(out') = 1
                 /\ out'[1].ev = p.op
                 /\ out'[1].user = sockets[p.sock].userId
                 /\ Delivered(sockets', out'[1]) =
                      {x \in DOMAIN sockets : /\ sockets[x].connected
                                              /\ Board(p.id) \in sockets[x].rooms
                                              /\ x # p.sock}]_vars

\* a task event reached a subscriber of the board
C16_SubscriberGotTaskEvent ==
  \E i \in 1..Len(out) :
    /\ out[i].ev \in TaskEvents
    /\ Delivered(sockets, out[i]) # {}

\* C17: the n-th update of a document connection triggers a snapshot
\* persist exactly when n is a multiple of 10 or more than 30 seconds have
\* passed since the connection last triggered one (since its first update,
\* when it never has).
C17_PersistEveryTenOrThirtySeconds ==
  [][\A c \in DOMAIN yconns :
       YMessage(c) =>
         LET n == yconns[c].updateCount + 1
             since == IF yconns[c].triggeredAt # 0 THEN yconns[c].triggeredAt
                      ELSE IF yconns[c].lastSave # 0 THEN yconns[c].lastSave
                      ELSE now
         IN (yconns'[c].persists = yconns[c].persists + 1)
              <=> (n % SaveEveryUpdates = 0 \/ now - since > SaveIntervalMs)]_vars

\* C18: a socket gets a workspace, room, board or document channel only in
\* the step in which the listener of its own join request resumes from a
\* lookup that confirmed its user; a denied join_chat_room, join_task_board
\* or document_join leaves every subscription as it was and emits one error,
\* to the requester alone; join_workspaces subscribes to no workspace outside
\* the rows returned for the workspaces it asked for.
C18_SubscribedOnlyWhenConfirmed ==
  [][/\ \A s \in DOMAIN sockets : \A ch \in sockets'[s].rooms \ sockets[s].rooms :
          ch.k \in {"workspace", "room", "board", "document"} =>
          \E p \in pending \ pending' :
            /\ p.sock = s
            /\ \/ /\ ch.k = "room" /\ p.op = "join_chat_room" /\ ch = ChatRoom(p.id)
                  /\ ResumeJoinChatRoom(p, TRUE)
               \/ /\ ch.k = "board" /\ p.op = "join_task_board" /\ ch = Board(p.id)
                  /\ ResumeJoinTaskBoard(p, TRUE)
               \/ /\ ch.k = "document" /\ p.op = "document_join"
                  /\ ch = DocumentRoom(p.id)
                  /\ ResumeDocumentJoin(p, TRUE)
               \/ /\ ch.k = "workspace" /\ p.op = "join_workspaces"
                  /\ \E rows \in MembershipRows(p.wss) :
                       /\ ch.n \in rows[1]
                       /\ ResumeJoinWorkspaces(p, FALSE, rows[1], rows[2])
     /\ \A p \in pending :
          (/\ p.op \in {"join_chat_room", "join_task_board", "document_join"}
           /\ \/ ResumeJoinChatRoom(p, FALSE)
              \/ ResumeJoinTaskBoard(p, FALSE)
              \/ ResumeDocumentJoin(p, FALSE))
            => /\ sockets' = sockets
               /\ Len(out') = 1
               /\ out'[1].ev = "error" /\ out'[1].to = ToSocket(p.sock)
               /\ Delivered(sockets', out'[1]) \subseteq {p.sock}]_vars

\* a socket is subscribed to a document after a confirmed document_join,
\* and another socket's document_join has just been denied
C18_OneJoinedOneDenied ==
  /\ \E s \in DOMAIN sockets, d \in Documents : DocumentRoom(d) \in sockets[s].rooms
  /\ \E s \in DOMAIN sockets :
       /\ \A d \in Documents : DocumentRoom(d) \notin sockets[s].rooms
       /\ out = <<ErrorMsg("error", s, "No access to this document")>>

\* C19: the membership gate lets a request through exactly when the lookup
\* returned a row whose role is at least the required role in the order
\* member < admin < owner; no row, a lookup error, a thrown lookup and a role
\* outside the order are refused, for every stored and every required role.
C19_GateGrantsIffRoleSuffices ==
  [][\A u \in Users, w \in Workspaces, requiredRole \in Roles,
        fault \in {"none", "error", "throws"} :
       requireWorkspaceAccess(u, w, requiredRole, fault)
         => LET role == workspace_members[<<u, w>>]
                suffices ==
                  \/ role = "owner"
                  \/ role = "admin" /\ requiredRole \in {"member", "admin"}
                  \/ role = "member" /\ requiredRole = "member"
            IN /\ res'.status = "next" <=> (fault = "none" /\ suffices)
               /\ res'.status # "next" => res'.status \in {"403", "500"}]_vars

\* an admin was let through, and the table holds a member and a row
\* with no role
C19_AdminLetThrough ==
  /\ res = [status |-> "next", workspaceRole |-> "admin"]
  /\ \E m \in DOMAIN workspace_members : workspace_members[m] = NullRole
  /\ \E m \in DOMAIN workspace_members : workspace_members[m] = "member"

\* C20: whenever an upsert of user_presence is under way the in-memory
\* record of its user has been set, with the status it writes; and an upsert
\* that fails or is rejected leaves userPresence as it is and emits nothing,
\* to no handler and no client.
C20_FailedWriteChangesNothing ==
  [][/\ \A w \in presenceWrites' \ presenceWrites :
          /\ w.user_id \in DOMAIN userPresence'
          /\ userPresence'[w.user_id].status = w.status
     /\ \A w \in presenceWrites, result \in {"error", "throws"} :
          PresenceWritten(w, result)
            => /\ userPresence' = userPresence
               /\ out' = <<>>
               /\ UNCHANGED <<sockets, pending, workspaceRooms, activeConnections>>]_vars

\* a write has failed: the user is online in memory, no row was written
C20_RecordKeptNoRow ==
  \E u \in DOMAIN userPresence :
    /\ userPresence[u].status = "online"
    /\ presenceWrites = {}
    /\ user_presence = EmptyMap

\* C21: an update_presence for workspace W1 that sets the presence of user U
\* leaves U in getOnlineUsers(W2) exactly when U was in it before, for every
\* other workspace W2.
C21_PresencePerWorkspace ==
  [][\A p \in pending :
       (p.op = "update_presence" /\ ResumeUpdatePresence(p, TRUE))
         => LET u == sockets[p.sock].userId
            IN \A w2 \in Workspaces \ {p.ws} :
                 (u \in getOnlineUsers(workspaceRooms', userPresence', w2))
                   <=> (u \in getOnlineUsers(workspaceRooms, userPresence, w2))]_vars

\* C22: a start_video_call or join_group_call that creates a call never
\* gives it the id of a call that is in activeCalls already.
C22_NewCallIdIsFresh ==
  [][/\ \A p \in pending, n \in 1..MaxRand :
          (p.op = "start_video_call" /\ ResumeStartVideoCall(p, TRUE, TRUE, n))
            => ~HasCall(activeCalls, CallIdOf(n))
     /\ \A p \in pending, t \in 1..MaxStamp :
          (/\ p.op = "join_group_call"
           /\ FindGroupCall(activeCalls, p.ws) = NoCall
           /\ ResumeJoinGroupCall(p, TRUE, t))
            => ~HasCall(activeCalls, GroupCallIdOf(p.ws, t))]_vars

\* C23: the content a triggered snapshot persist writes holds every update
\* received for the document up to that point.
C23_SnapshotHoldsAllUpdates ==
  [][\A c \in DOMAIN yconns :
       (YMessage(c) /\ Len(saves') > Len(saves))
         => saves'[Len(saves')].content = received']_vars

\* C29: an update received on a connection whose permission is read triggers
\* no saveDocumentSnapshot.
C29_ReadConnectionNeverSaves ==
  [][\A c \in DOMAIN yconns :
       (yconns[c].permission = "read" /\ YMessage(c)) => saves' = saves]_vars

\* C24: in every reachable state a call id c is in userCalls[u] exactly when
\* c is in activeCalls with u among its participants, and userCalls holds no
\* empty set.
C24_CallIndexesAgree ==
  /\ \A u \in DOMAIN userCalls : userCalls[u] # {}
  /\ \A u \in Joiners, c \in CallIds(activeCalls) \cup UNION {userCalls[x] : x \in DOMAIN userCalls} :
       (u \in DOMAIN userCalls /\ c \in userCalls[u])
         <=> (HasCall(activeCalls, c) /\ u \in GetCall(activeCalls, c).participants)

\* C25: in every reachable state every user recorded in workspaceRooms[W]
\* has at least one live connection in activeConnections, also when a
\* join_workspaces listener resumes after its connection has disconnected.
C25_TrackedUsersAreConnected ==
  \A w \in DOMAIN workspaceRooms : \A u \in workspaceRooms[w] :
    /\ u \in DOMAIN activeConnections
    /\ \E s \in activeConnections[u] : sockets[s].connected

\* C26: in every reachable state every call in activeCalls has at least one
\* participant with a live connection.
C26_NoLeakedCall ==
  \A c \in CallIds(activeCalls) :
    \E u \in GetCall(activeCalls, c).participants :
      /\ u \in DOMAIN activeConnections
      /\ \E s \in activeConnections[u] : sockets[s].connected

\* C27: when a user has two or more live connections, the disconnect of one
\* of them leaves the user in the participant set of each of their calls,
\* keeps the user's userCalls entry and sends no user_disconnected_from_call.
C27_OtherConnectionKeepsCalls ==
  [][\A s \in DOMAIN sockets :
       LET u == sockets[s].userId
       IN (/\ Live(s)
           /\ u \in DOMAIN activeConnections
           /\ Cardinality({x \in activeConnections[u] : sockets[x].connected}) >= 2
           /\ u \in DOMAIN userCalls
           /\ Disconnect(s))
            => /\ u \in DOMAIN userCalls' /\ userCalls'[u] = userCalls[u]
               /\ \A c \in userCalls[u] :
                    HasCall(activeCalls, c) /\ u \in GetCall(activeCalls, c).participants
                      => HasCall(activeCalls', c)
                         /\ u \in GetCall(activeCalls', c).participants
               /\ \A i \in 1..Len(out') :
                    out'[i].ev # "user_disconnected_from_call"]_vars

\* C28: in every reachable state activeCalls holds at most one call of type
\* group per workspace.
C28_OneGroupCallPerWorkspace ==
  \A i, j \in 1..Len(activeCalls) :
    (/\ activeCalls[i].type = "group" /\ activeCalls[j].type = "group"
     /\ activeCalls[i].workspaceId = activeCalls[j].workspaceId)
      => i = j

\* C30: user_typing, wb_begin, wb_draw, wb_line and collaborator_left reach
\* the subscribers of a room, workspace or document channel only when the
\* connection that sent the event is itself subscribed to that channel.
C30_RelayedOnlyFromMembers ==
  [][/\ \A s \in DOMAIN sockets, r \in ChatRooms, isTyping \in BOOLEAN :
          (Typing(s, r, isTyping) /\ Delivered(sockets', out'[1]) # {})
            => ChatRoom(r) \in sockets[s].rooms
     /\ \A s \in DOMAIN sockets, ev \in WhiteboardEvents, w \in Workspaces :
          (Whiteboard(s, ev, w) /\ Delivered(sockets', out'[1]) # {})
            => WorkspaceRoom(w) \in sockets[s].rooms
     /\ \A s \in DOMAIN sockets, d \in Documents :
          (DocumentLeave(s, d) /\ Delivered(sockets', out'[1]) # {})
            => DocumentRoom(d) \in sockets[s].rooms]_vars

====
